---- MODULE Spec2Model ----
(***************************************************************************)
(* The nozzle simulation of server.ts: an in-memory array of nozzle        *)
(* records, the POST /api/command handler, the GET /api/status handler and *)
(* the chain of setTimeout / setInterval callbacks an accepted AUTHORIZE   *)
(* starts.  Node runs handlers and timer callbacks one at a time, so every *)
(* handler and every callback is one atomic action.                        *)
(*                                                                         *)
(* Time is counted in units of 500 ms, the greatest common divisor of the  *)
(* three delays (2000, 500, 3000).  Numbers are kept exactly: volume in    *)
(* units of 0.5 litre, money in cents, and the IEEE-754 double product     *)
(* volume * price is computed on arbitrary-size naturals held in limbs.    *)
(*                                                                         *)
(* Spec lets the operator send MaxCommands requests to any nozzle id;      *)
(* SpecDeep lets it send MaxCommandsDeep requests, all to the first        *)
(* nozzle, which reaches the longer BLOCK / AUTHORIZE histories.           *)
(***************************************************************************)
EXTENDS Integers, Sequences, FiniteSets

\* ------------------------------------------------------------------------
\* Bounds of the model
\* ------------------------------------------------------------------------
NumNozzles == 2

\* POST /api/command requests sent in one run, to any nozzle
MaxCommands == 4

\* POST /api/command requests sent in one run when all go to one nozzle
MaxCommandsDeep == 8
MaxCommandsUI == 2
MaxInFlight == 1

\* ------------------------------------------------------------------------
\* Arbitrary-size naturals: little-endian sequences of limbs in base 2^16,
\* without leading zero limbs (zero is the empty sequence).
\* ------------------------------------------------------------------------
Base == 65536

LimbBits == 16

RECURSIVE Pow2(_)
Pow2(e) == IF e = 0 THEN 1 ELSE 2 * Pow2(e - 1)

RECURSIVE Strip(_)
Strip(a) ==
  IF a = <<>> THEN <<>>
  ELSE IF a[Len(a)] = 0 THEN Strip(SubSeq(a, 1, Len(a) - 1))
  ELSE a

RECURSIVE MulCarry(_, _, _)
MulCarry(a, c, carry) ==
  IF a = <<>>
    THEN IF carry = 0 THEN <<>>
         ELSE <<carry % Base>> \o MulCarry(<<>>, c, carry \div Base)
    ELSE LET p == Head(a) * c + carry
         IN  <<p % Base>> \o MulCarry(Tail(a), c, p \div Base)

\* a * c for a small natural c (c < 2^14)
MulSmall(a, c) == Strip(MulCarry(a, c, 0))

RECURSIVE AddCarry(_, _, _)
AddCarry(a, b, carry) ==
  IF a = <<>> /\ b = <<>>
    THEN IF carry = 0 THEN <<>> ELSE <<carry>>
    ELSE LET x == IF a = <<>> THEN 0 ELSE Head(a)
             y == IF b = <<>> THEN 0 ELSE Head(b)
             s == x + y + carry
         IN  <<s % Base>>
               \o AddCarry(IF a = <<>> THEN <<>> ELSE Tail(a),
                           IF b = <<>> THEN <<>> ELSE Tail(b),
                           s \div Base)

BigAdd(a, b) == Strip(AddCarry(a, b, 0))

BigOfSmall(n) == Strip(<<n % Base, n \div Base>>)

\* the value of a, for a < 2^31
RECURSIVE SmallOfBig(_)
SmallOfBig(a) == IF a = <<>> THEN 0 ELSE Head(a) + Base * SmallOfBig(Tail(a))

RECURSIVE BitsOfSmall(_)
BitsOfSmall(n) == IF n = 0 THEN 0 ELSE 1 + BitsOfSmall(n \div 2)

BitLength(a) ==
  IF a = <<>> THEN 0 ELSE LimbBits * (Len(a) - 1) + BitsOfSmall(a[Len(a)])

\* a * 2^e
RECURSIVE ShiftLeft(_, _)
ShiftLeft(a, e) ==
  IF e = 0 THEN a
  ELSE IF e >= LimbBits THEN ShiftLeft(IF a = <<>> THEN <<>> ELSE <<0>> \o a, e - LimbBits)
  ELSE MulSmall(a, Pow2(e))

\* floor(a / 2^e)
RECURSIVE ShiftRight(_, _)
ShiftRight(a, e) ==
  IF e = 0 \/ a = <<>> THEN a
  ELSE IF e >= LimbBits THEN ShiftRight(Tail(a), e - LimbBits)
  ELSE Strip([i \in 1..Len(a) |->
               (a[i] \div Pow2(e))
                 + (IF i < Len(a) THEN (a[i + 1] % Pow2(e)) * Pow2(LimbBits - e) ELSE 0)])

\* a mod 2^e
BigModPow2(a, e) == Strip([i \in 1..Len(a) |->
                     IF i * LimbBits <= e THEN a[i]
                     ELSE IF (i - 1) * LimbBits >= e THEN 0
                     ELSE a[i] % Pow2(e - (i - 1) * LimbBits)])

\* floor(a / c) for a small natural c > 0: long division from the top limb
RECURSIVE DivRem(_, _, _)
DivRem(a, c, rem) ==
  IF a = <<>> THEN [q |-> <<>>, r |-> rem]
  ELSE LET cur == rem * Base + a[Len(a)]
           rest == DivRem(SubSeq(a, 1, Len(a) - 1), c, cur % c)
       IN  [q |-> rest.q \o <<cur \div c>>, r |-> rest.r]

DivSmall(a, c) == [q |-> Strip(DivRem(a, c, 0).q), r |-> DivRem(a, c, 0).r]

\* round(a / 2^e) to the nearest natural, ties to even (IEEE-754 default)
RoundShiftEven(a, e) ==
  IF e = 0 THEN a
  ELSE LET q    == ShiftRight(a, e)
           r    == BigModPow2(a, e)
           half == ShiftLeft(<<1>>, e - 1)
           odd  == q # <<>> /\ Head(q) % 2 = 1
           up   == \/ BitLength(r) > BitLength(half)
                   \/ BitLength(r) = BitLength(half) /\ r # half
                   \/ r = half /\ odd
       IN  IF up THEN BigAdd(q, <<1>>) ELSE q

\* ------------------------------------------------------------------------
\* IEEE-754 doubles (positive, normal): the value m / 2^s with m < 2^53.
\* ------------------------------------------------------------------------
MantBits == 53

\* the double nearest to n / 2^s (round to nearest, ties to even)
RoundDouble(n, s) ==
  LET d == IF BitLength(n) > MantBits THEN BitLength(n) - MantBits ELSE 0
  IN  [m |-> RoundShiftEven(n, d), s |-> s - d]

GuardBits == 60

\* the double a decimal literal of `cents` hundredths denotes (5.89 is 589):
\* the quotient is taken with GuardBits fraction bits and a sticky bit for
\* the remainder, then rounded to the mantissa.
DoubleOfCents(cents) ==
  LET qr     == DivSmall(ShiftLeft(BigOfSmall(cents), GuardBits), 100)
      sticky == IF qr.r = 0 THEN <<>> ELSE <<1>>
  IN  RoundDouble(BigAdd(ShiftLeft(qr.q, 1), sticky), GuardBits + 1)

\* volume * price: volume is `halves` / 2 (exact in a double), the product
\* is rounded once
DoubleTimesHalves(halves, x) == RoundDouble(MulSmall(x.m, halves), x.s + 1)

\* x.toFixed(2): the integer n with n / 100 nearest to x, the larger n on a
\* tie; Number(...) of that text is the double nearest to n / 100, kept
\* here as n cents.
ToFixed2(x) ==
  SmallOfBig(ShiftRight(BigAdd(MulSmall(x.m, 200), ShiftLeft(<<1>>, x.s)), x.s + 1))

\* ------------------------------------------------------------------------
\* Program constants
\* ------------------------------------------------------------------------
\* price: 5.89, in cents
PriceCents == 589

\* volume >= 20, in units of 0.5 litre
TargetHalves == 40

\* setTimeout(..., 2000), setInterval(..., 500), setTimeout(..., 3000), in
\* units of 500 ms
AuthorizeDelay == 4

TickPeriod == 1

CompletionDelay == 6

\* Number((volume * price).toFixed(2)) in cents, for a volume of `halves` / 2
TotalOf(halves) == ToFixed2(DoubleTimesHalves(halves, DoubleOfCents(PriceCents)))

\* the totals of all volumes a record can hold, computed once
TotalTable == [h \in 0..(TargetHalves + 1) |-> TotalOf(h)]

\* ------------------------------------------------------------------------
\* State
\* ------------------------------------------------------------------------
\* status[i], fueling[i]: the fields status and currentFueling of nozzles[i-1]
\* timers[i]: the pending timers whose callbacks close over nozzles[i-1], one
\*   FIFO list per duration (Node keeps one list per duration and runs timers
\*   of equal duration in the order they were armed)
\* client: the operator's side: the nozzle ids it sends commands to and the
\*   number of POST /api/command requests it has yet to send
\* last: the handler or callback that ran last, with its request and response
\* ui: the state of the App component in the operator's browser: isConnected,
\*   nozzles, selectedNozzle, whether the timeout of handleConnect is pending,
\*   and the fetches in flight, each with the selectedNozzle its closure holds
VARIABLES status, fueling, timers, client, last, ui

vars == <<status, fueling, timers, client, last, ui>>

\* JavaScript null / "does not apply"
Null == [null |-> TRUE]

Nozzles == 1..NumNozzles

DigitChars == <<"0", "1", "2", "3", "4", "5", "6", "7", "8", "9">>

\* (i).toString()
RECURSIVE ToString(_)
ToString(i) ==
  IF i < 10 THEN DigitChars[i + 1]
  ELSE ToString(i \div 10) \o DigitChars[(i % 10) + 1]

\* PadStart2 without the padding
PadStart2Missing(n) == ToString(n)

\* s.padStart(2, '0') for the decimal text of n
PadStart2(n) == IF n < 10 THEN "0" \o ToString(n) ELSE ToString(n)

\* id: (i + 1).toString().padStart(2, '0'), i the 0-based array index
IdOf(n) == PadStart2(n)

\* Find with an unknown id falling back to the first nozzle
FindOrFirst(nozzleId) ==
  IF \E n \in Nozzles : IdOf(n) = nozzleId
    THEN CHOOSE n \in Nozzles : IdOf(n) = nozzleId
    ELSE 1

\* nozzles.find(n => n.id === nozzleId): the 1-based index, 0 for undefined
Find(nozzleId) ==
  IF \E n \in Nozzles : IdOf(n) = nozzleId
    THEN CHOOSE n \in Nozzles : IdOf(n) = nozzleId /\ \A m \in 1..(n - 1) : IdOf(m) # nozzleId
    ELSE 0

\* request bodies the model sends: every id of the array and an id past its
\* end; the three commands and one that is none of them
NozzleIdInputs == {IdOf(n) : n \in Nozzles} \cup {"99"}

CommandInputs == {"AUTHORIZE", "BLOCK", "FREE", "RESET"}

\* the JSON of one nozzle record
NozzleJson(n, st, fu) == [id |-> IdOf(n), status |-> st[n], currentFueling |-> fu[n]]

NoTimers == [promotion |-> <<>>, interval |-> <<>>, completion |-> <<>>]

\* Started with every nozzle Waiting instead of Free
StartedWaiting ==
  /\ status = [n \in Nozzles |-> "E"]
  /\ fueling = [n \in Nozzles |-> Null]
  /\ timers = [n \in Nozzles |-> NoTimers]
  /\ last = [op |-> "start", n |-> 0, req |-> Null, res |-> Null, timer |-> Null]

\* const nozzles = Array.from({ length: 48 }, ...): every nozzle 'L' with
\* currentFueling null, no timer armed
Started ==
  /\ status = [n \in Nozzles |-> "L"]
  /\ fueling = [n \in Nozzles |-> Null]
  /\ timers = [n \in Nozzles |-> NoTimers]
  /\ last = [op |-> "start", n |-> 0, req |-> Null, res |-> Null, timer |-> Null]

\* useState([]), useState(null), useState(false): nothing shown, not
\* connected, no fetch in flight
Mounted ==
  ui = [isConnected |-> FALSE, connecting |-> FALSE, nozzles |-> <<>>,
        selectedNozzle |-> Null, requests |-> {}]

Init ==
  /\ Started
  /\ Mounted
  /\ client = [ids |-> NozzleIdInputs, left |-> MaxCommands]

\* the operator works on the first nozzle only
InitDeep ==
  /\ Started
  /\ Mounted
  /\ client = [ids |-> {IdOf(1)}, left |-> MaxCommandsDeep]

\* ------------------------------------------------------------------------
\* Bookkeeping on pending timers that the program does not keep: it never
\* reads these fields.
\*   stale: a BLOCK or FREE was applied to the nozzle after the timer was
\*          armed
\*   episode (intervals only): "current" while the record the interval was
\*          started with is still the nozzle's record and no BLOCK came
\*          while it was fueling; "blocked" once BLOCK was applied to the
\*          nozzle while Authorized in that episode; "past" once the record
\*          was replaced or cleared otherwise
\* ------------------------------------------------------------------------
MarkStale(ts, blockInA) ==
  [promotion  |-> [i \in 1..Len(ts.promotion) |-> [ts.promotion[i] EXCEPT !.stale = TRUE]],
   interval   |-> [i \in 1..Len(ts.interval) |->
                    [ts.interval[i] EXCEPT
                       !.stale = TRUE,
                       !.episode = IF blockInA /\ @ = "current" THEN "blocked" ELSE @]],
   completion |-> [i \in 1..Len(ts.completion) |-> [ts.completion[i] EXCEPT !.stale = TRUE]]]

EndEpisode(ivs) ==
  [i \in 1..Len(ivs) |->
     [ivs[i] EXCEPT !.episode = IF @ = "current" THEN "past" ELSE @]]

\* ------------------------------------------------------------------------
\* POST /api/command
\* ------------------------------------------------------------------------
\* Accepts without the status check for fueling nozzles
AcceptsWhileFueling(st) == st = "E" \/ st = "B" \/ st = "A"

\* nozzle.status === 'E' || nozzle.status === 'B'
Accepts(st) == st = "E" \/ st = "B"

\* Authorize promoting in the handler instead of in a timer
AuthorizeAtOnce(n) ==
  IF Accepts(status[n])
    THEN /\ status' = [status EXCEPT ![n] = "A"]
         /\ fueling' = [fueling EXCEPT ![n] = [volume |-> 0, total |-> 0, price |-> PriceCents]]
         /\ timers' = [timers EXCEPT ![n].interval =
                         Append(@, [rem |-> TickPeriod, stale |-> FALSE,
                                    episode |-> "current"])]
    ELSE UNCHANGED <<status, fueling, timers>>

\* case 'AUTHORIZE'
Authorize(n) ==
  IF Accepts(status[n])
    THEN /\ status' = [status EXCEPT ![n] = "P"]
         /\ timers' = [timers EXCEPT ![n].promotion =
                         Append(@, [rem |-> AuthorizeDelay, stale |-> FALSE])]
         /\ UNCHANGED fueling
    ELSE UNCHANGED <<status, fueling, timers>>

\* Block refusing a nozzle that is fueling
BlockUnlessFueling(n) ==
  /\ status' = [status EXCEPT ![n] = IF @ = "A" THEN @ ELSE "B"]
  /\ timers' = [timers EXCEPT ![n] = MarkStale(@, FALSE)]
  /\ UNCHANGED fueling

\* case 'BLOCK'
Block(n) ==
  /\ status' = [status EXCEPT ![n] = "B"]
  /\ timers' = [timers EXCEPT ![n] = MarkStale(@, status[n] = "A")]
  /\ UNCHANGED fueling

\* Free releasing every nozzle of the array
FreeAll(n) ==
  /\ status' = [m \in Nozzles |-> "L"]
  /\ timers' = [m \in Nozzles |-> MarkStale(timers[m], FALSE)]
  /\ UNCHANGED fueling

\* case 'FREE'
Free(n) ==
  /\ status' = [status EXCEPT ![n] = "L"]
  /\ timers' = [timers EXCEPT ![n] = MarkStale(@, FALSE)]
  /\ UNCHANGED fueling

\* Dispatch with an unrecognised command falling into case 'FREE'
DispatchDefaultFree(n, command) ==
  CASE command = "AUTHORIZE" -> Authorize(n)
    [] command = "BLOCK"     -> Block(n)
    [] OTHER                 -> Free(n)

\* switch (command)
Dispatch(n, command) ==
  CASE command = "AUTHORIZE" -> Authorize(n)
    [] command = "BLOCK"     -> Block(n)
    [] command = "FREE"      -> Free(n)
    [] OTHER                 -> UNCHANGED <<status, fueling, timers>>

\* the handler of POST /api/command
ApiCommand(nozzleId, command) ==
  /\ nozzleId \in client.ids
  /\ client.left > 0
  /\ client' = [client EXCEPT !.left = @ - 1]
  /\ LET n   == Find(nozzleId)
         req == [nozzleId |-> nozzleId, command |-> command]
     IN  IF n = 0
           THEN /\ UNCHANGED <<status, fueling, timers>>
                /\ last' = [op |-> "command", n |-> 0, req |-> req, timer |-> Null,
                            res |-> [code |-> 404,
                                     body |-> [error |-> "Nozzle not found"]]]
           ELSE /\ Dispatch(n, command)
                /\ last' = [op |-> "command", n |-> n, req |-> req, timer |-> Null,
                            res |-> [code |-> 200,
                                     body |-> [success |-> TRUE,
                                               nozzle |-> NozzleJson(n, status', fueling')]]]

\* POST /api/command sent by a client other than the App
Command(nozzleId, command) ==
  /\ ApiCommand(nozzleId, command)
  /\ UNCHANGED ui

\* the handler of GET /api/status
ApiStatus ==
  /\ last' = [op |-> "status", n |-> 0, req |-> Null, timer |-> Null,
              res |-> [code |-> 200,
                       body |-> [n \in Nozzles |-> NozzleJson(n, status, fueling)]]]
  /\ UNCHANGED <<status, fueling, timers, client>>

\* GET /api/status sent by a client other than the App
GetStatus ==
  /\ ApiStatus
  /\ UNCHANGED ui

\* ------------------------------------------------------------------------
\* Timer callbacks.  A timer is due when its remaining time is 0; the head
\* of each list is the timer of that duration armed first.
\* ------------------------------------------------------------------------
Due(list) == list # <<>> /\ Head(list).rem = 0

\* NewFueling with the record left out
NewFuelingMissing == Null

\* { volume: 0, total: 0, price: 5.89 }
NewFueling == [volume |-> 0, total |-> 0, price |-> PriceCents]

\* callback of setTimeout(..., 2000)
Promote(n) ==
  /\ Due(timers[n].promotion)
  /\ last' = [op |-> "promote", n |-> n, req |-> Null, res |-> Null,
              timer |-> Head(timers[n].promotion)]
  /\ IF status[n] = "P"
       THEN /\ status' = [status EXCEPT ![n] = "A"]
            /\ fueling' = [fueling EXCEPT ![n] = NewFueling]
            /\ timers' = [timers EXCEPT
                 ![n].promotion = Tail(@),
                 ![n].interval = Append(EndEpisode(@),
                                   [rem |-> TickPeriod, stale |-> FALSE,
                                    episode |-> "current"])]
       ELSE /\ timers' = [timers EXCEPT ![n].promotion = Tail(@)]
            /\ UNCHANGED <<status, fueling>>
  /\ UNCHANGED <<client, ui>>

\* Pumped wrapping round at the target volume
PumpedWrapping(volume) == (volume + 1) % TargetHalves

\* nozzle.currentFueling.volume += 0.5
Pumped(volume) == volume + 1

\* Reached missing the volume equal to the target
ReachedStrictly(volume) == volume > TargetHalves

\* nozzle.currentFueling.volume >= 20
Reached(volume) == volume >= TargetHalves

\* Stopped never true: the tick without its status check
StoppedNever(st) == FALSE

\* nozzle.status !== 'A'
Stopped(st) == st # "A"

\* Cleared leaving the interval armed for its next period
KeptRunning(list) == Append(Tail(list), [Head(list) EXCEPT !.rem = TickPeriod])

\* clearInterval(interval), called from the interval's own callback, which is
\* the head of the list
Cleared(list) == Tail(list)

\* callback of setInterval(..., 500)
FuelTick(n) ==
  /\ Due(timers[n].interval)
  /\ last' = [op |-> "tick", n |-> n, req |-> Null, res |-> Null,
              timer |-> Head(timers[n].interval)]
  /\ LET again == Append(Tail(timers[n].interval),
                         [Head(timers[n].interval) EXCEPT !.rem = TickPeriod])
     IN  IF Stopped(status[n])
           THEN \* clearInterval(interval); return
                /\ timers' = [timers EXCEPT ![n].interval = Cleared(@)]
                /\ UNCHANGED <<status, fueling>>
           ELSE IF fueling[n] # Null
             THEN LET volume == Pumped(fueling[n].volume)
                  IN  /\ fueling' = [fueling EXCEPT
                                       ![n].volume = volume,
                                       ![n].total = TotalTable[volume]]
                      /\ IF Reached(volume)
                           THEN /\ status' = [status EXCEPT ![n] = "C"]
                                /\ timers' = [timers EXCEPT
                                     ![n].completion =
                                       Append(@, [rem |-> CompletionDelay, stale |-> FALSE]),
                                     ![n].interval = Cleared(@)]
                           ELSE /\ timers' = [timers EXCEPT ![n].interval = again]
                                /\ UNCHANGED status
             ELSE /\ timers' = [timers EXCEPT ![n].interval = again]
                  /\ UNCHANGED <<status, fueling>>
  /\ UNCHANGED <<client, ui>>

\* callback of setTimeout(..., 3000)
Complete(n) ==
  /\ Due(timers[n].completion)
  /\ last' = [op |-> "complete", n |-> n, req |-> Null, res |-> Null,
              timer |-> Head(timers[n].completion)]
  /\ status' = [status EXCEPT ![n] = "L"]
  /\ fueling' = [fueling EXCEPT ![n] = Null]
  /\ timers' = [timers EXCEPT ![n].completion = Tail(@),
                              ![n].interval = EndEpisode(@)]
  /\ UNCHANGED <<client, ui>>

\* 500 ms pass: possible once every due callback has run
Elapse(list) == [i \in 1..Len(list) |-> [list[i] EXCEPT !.rem = @ - 1]]

Advance ==
  /\ \E n \in Nozzles : timers[n] # NoTimers
  /\ \A n \in Nozzles :
       ~Due(timers[n].promotion) /\ ~Due(timers[n].interval) /\ ~Due(timers[n].completion)
  /\ timers' = [n \in Nozzles |->
                  [promotion  |-> Elapse(timers[n].promotion),
                   interval   |-> Elapse(timers[n].interval),
                   completion |-> Elapse(timers[n].completion)]]
  /\ last' = [op |-> "advance", n |-> 0, req |-> Null, res |-> Null, timer |-> Null]
  /\ UNCHANGED <<status, fueling, client, ui>>

Next ==
  \/ \E nozzleId \in NozzleIdInputs, command \in CommandInputs : Command(nozzleId, command)
  \/ GetStatus
  \/ \E n \in Nozzles : Promote(n)
  \/ \E n \in Nozzles : FuelTick(n)
  \/ \E n \in Nozzles : Complete(n)
  \/ Advance

Spec == Init /\ [][Next]_vars

SpecDeep == InitDeep /\ [][Next]_vars

\* a timer callback runs or, none being due, time passes
TimerFiring ==
  \/ \E n \in Nozzles : Promote(n) \/ FuelTick(n) \/ Complete(n)
  \/ Advance

\* Node's event loop runs every callback that is due and its clock does not
\* stop: while a timer is pending, a callback or the passing of time is
\* always possible and eventually happens
SpecFair == InitDeep /\ [][Next]_vars /\ WF_vars(TimerFiring)

\* ------------------------------------------------------------------------
\* The App component (App.tsx).  A fetch in flight is a record of ui.requests:
\* its kind, whether the server has answered it, the selectedNozzle held by
\* the closure that sent it (its id is all the closure reads), the request
\* body and the response data.  Equal fetches in flight count once.  Network
\* delays are arbitrary, so the polling interval may fire at any moment
\* while it is armed.
\* ------------------------------------------------------------------------
\* selectedNozzle?.id, the part of selectedNozzle a closure reads
SelectedId(selectedNozzle) ==
  IF selectedNozzle = Null THEN Null ELSE [id |-> selectedNozzle.id]

\* fetch('/api/status') on its way
StatusRequest(selectedNozzle) ==
  [kind |-> "status", phase |-> "sent", selected |-> SelectedId(selectedNozzle),
   body |-> Null, data |-> Null]

\* fetch('/api/command', { method: 'POST', body: { nozzleId, command } })
CommandRequest(selectedNozzle, command) ==
  [kind |-> "command", phase |-> "sent", selected |-> SelectedId(selectedNozzle),
   body |-> [nozzleId |-> selectedNozzle.id, command |-> command], data |-> Null]

\* useEffect(..., [isConnected, selectedNozzle?.id]) after a render with the
\* state new: when a dependency changed and isConnected holds, fetchStatus()
\* is called at once (the interval it arms is Poll)
Effect(new) ==
  IF /\ new.isConnected
     /\ \/ ~ui.isConnected
        \/ SelectedId(new.selectedNozzle) # SelectedId(ui.selectedNozzle)
    THEN [new EXCEPT !.requests = @ \cup {StatusRequest(new.selectedNozzle)}]
    ELSE new

\* the component renders with the state new and runs its effect
Render(new) ==
  /\ Cardinality(Effect(new).requests) <= MaxInFlight
  /\ ui' = Effect(new)

\* handleConnect: setTimeout(..., 1500); the button is disabled meanwhile
HandleConnect ==
  /\ ~ui.isConnected
  /\ ~ui.connecting
  /\ ui' = [ui EXCEPT !.connecting = TRUE]
  /\ UNCHANGED <<status, fueling, timers, client, last>>

\* callback of the timeout of handleConnect: setIsConnected(true)
Connected ==
  /\ ui.connecting
  /\ Render([ui EXCEPT !.isConnected = TRUE, !.connecting = FALSE])
  /\ UNCHANGED <<status, fueling, timers, client, last>>

\* callback of setInterval(fetchStatus, 1000), armed while isConnected
Poll ==
  /\ ui.isConnected
  /\ Cardinality(ui.requests \cup {StatusRequest(ui.selectedNozzle)}) <= MaxInFlight
  /\ ui' = [ui EXCEPT !.requests = @ \cup {StatusRequest(ui.selectedNozzle)}]
  /\ UNCHANGED <<status, fueling, timers, client, last>>

\* onClick={() => setSelectedNozzle(nozzle)} on a button of the grid, which
\* is rendered while isConnected
Select(i) ==
  /\ ui.isConnected
  /\ i \in 1..Len(ui.nozzles)
  /\ Render([ui EXCEPT !.selectedNozzle = ui.nozzles[i]])
  /\ UNCHANGED <<status, fueling, timers, client, last>>

\* the commands of the three buttons of the control panel
ButtonCommands == {"AUTHORIZE", "BLOCK", "FREE"}

\* the disabled attribute of the three buttons, negated
ButtonEnabled(command, st) ==
  CASE command = "AUTHORIZE" -> st \in {"B", "E"}
    [] command = "BLOCK"     -> st # "B"
    [] command = "FREE"      -> st # "L"

\* sendCommand(selectedNozzle.id, command) up to its await
SendCommand(command) ==
  /\ ui.selectedNozzle # Null
  /\ ButtonEnabled(command, ui.selectedNozzle.status)
  /\ ui.isConnected
  /\ client.left > 0
  /\ Cardinality(ui.requests \cup {CommandRequest(ui.selectedNozzle, command)}) <= MaxInFlight
  /\ ui' = [ui EXCEPT !.requests = @ \cup {CommandRequest(ui.selectedNozzle, command)}]
  /\ UNCHANGED <<status, fueling, timers, client, last>>

\* handleDisconnect
HandleDisconnect ==
  /\ ui' = [ui EXCEPT !.isConnected = FALSE, !.nozzles = <<>>, !.selectedNozzle = Null]
  /\ UNCHANGED <<status, fueling, timers, client, last>>

\* the server handles a GET /api/status of the App
ServeStatus(r) ==
  /\ r \in ui.requests
  /\ r.kind = "status"
  /\ r.phase = "sent"
  /\ ApiStatus
  /\ ui' = [ui EXCEPT !.requests =
               (@ \ {r}) \cup {[r EXCEPT !.phase = "answered",
                                         !.data = [json |-> last'.res.body]]}]

\* the server handles a POST /api/command of the App
ServeCommand(r) ==
  /\ r \in ui.requests
  /\ r.kind = "command"
  /\ r.phase = "sent"
  /\ ApiCommand(r.body.nozzleId, r.body.command)
  /\ ui' = [ui EXCEPT !.requests = (@ \ {r}) \cup {[r EXCEPT !.phase = "answered"]}]

\* data.find((n) => n.id === selectedNozzle.id), Null for undefined
FindIn(data, id) ==
  IF \E i \in DOMAIN data : data[i].id = id
    THEN data[CHOOSE i \in DOMAIN data :
                /\ data[i].id = id
                /\ \A j \in 1..(i - 1) : data[j].id # id]
    ELSE Null

\* fetchStatus after its awaits: setNozzles(data), and setSelectedNozzle of
\* the record found under the id of the closure's selectedNozzle
StatusArrives(r) ==
  /\ r \in ui.requests
  /\ r.kind = "status"
  /\ r.phase = "answered"
  /\ LET data    == r.data.json
         updated == IF r.selected = Null THEN Null ELSE FindIn(data, r.selected.id)
     IN  Render([ui EXCEPT
                   !.requests = @ \ {r},
                   !.nozzles = data,
                   !.selectedNozzle = IF updated # Null THEN updated ELSE @])
  /\ UNCHANGED <<status, fueling, timers, client, last>>

\* sendCommand after its await: fetchStatus() of the render that sent the
\* command, in which isConnected held
CommandArrives(r) ==
  /\ r \in ui.requests
  /\ r.kind = "command"
  /\ r.phase = "answered"
  /\ ui' = [ui EXCEPT !.requests =
               (@ \ {r}) \cup {[kind |-> "status", phase |-> "sent",
                                  selected |-> r.selected, body |-> Null, data |-> Null]}]
  /\ UNCHANGED <<status, fueling, timers, client, last>>

\* a fetch is rejected: the catch branch
RequestFails(r) ==
  /\ r \in ui.requests
  /\ ui' = [ui EXCEPT !.requests = @ \ {r}]
  /\ UNCHANGED <<status, fueling, timers, client, last>>

InitUI ==
  /\ Started
  /\ Mounted
  /\ client = [ids |-> NozzleIdInputs, left |-> MaxCommandsUI]

NextUI ==
  \/ HandleConnect
  \/ Connected
  \/ Poll
  \/ \E i \in Nozzles : Select(i)
  \/ \E command \in ButtonCommands : SendCommand(command)
  \/ HandleDisconnect
  \/ \E r \in ui.requests : ServeStatus(r)
  \/ \E r \in ui.requests : ServeCommand(r)
  \/ \E r \in ui.requests : StatusArrives(r)
  \/ \E r \in ui.requests : CommandArrives(r)
  \/ \E r \in ui.requests : RequestFails(r)
  \/ \E n \in Nozzles : Promote(n)
  \/ \E n \in Nozzles : FuelTick(n)
  \/ \E n \in Nozzles : Complete(n)
  \/ Advance

SpecUI == InitUI /\ [][NextUI]_vars

\* ------------------------------------------------------------------------
\* Vocabulary of the properties
\* ------------------------------------------------------------------------
TimerOps == {"promote", "tick", "complete"}

\* the status a callback is armed to advance from
ArmedFor(op) ==
  CASE op = "promote"  -> "P"
    [] op = "tick"     -> "A"
    [] op = "complete" -> "C"

\* this step is the callback `op` of a timer of nozzle n
TimerStep(op, n) == last'.op = op /\ last'.n = n /\ timers' # timers

\* this step is the handling of a POST /api/command request
CommandStep == last'.op = "command" /\ client'.left # client.left

\* this step changes the record of nozzle n
Mutates(n) == status'[n] # status[n] \/ fueling'[n] # fueling[n]

Pending(n) ==
  Len(timers[n].promotion) + Len(timers[n].interval) + Len(timers[n].completion)

\* ------------------------------------------------------------------------
\* Properties
\* ------------------------------------------------------------------------

\* C1: in every reachable state every nozzle has a fueling record exactly
\* when its status is Authorized ('A') or Completed ('C').
C1_FuelingIffAuthorizedOrCompleted ==
  \A n \in Nozzles : (fueling[n] # Null) <=> (status[n] \in {"A", "C"})

\* C2: a timer callback (promotion, fueling tick, completion reset) changes a
\* nozzle's status or fueling only if, when it fires, the nozzle is in the
\* state the timer was armed to advance from (Ready, Authorized, Completed).
C2_TimersCheckTheirState ==
  [][\A n \in Nozzles : \A op \in TimerOps :
       (TimerStep(op, n) /\ Mutates(n)) => status[n] = ArmedFor(op)]_vars

\* C3: in every reachable state at most one scheduled transition (one-shot
\* timer or periodic tick) is live for each nozzle.
C3_OneLiveTimerPerNozzle == \A n \in Nozzles : Pending(n) <= 1

\* C4: once BLOCK or FREE has been applied to a nozzle, no timer armed for
\* that nozzle before the command changes its status or fueling.
C4_NoStaleTimerMutates ==
  [][\A n \in Nozzles : \A op \in TimerOps :
       (TimerStep(op, n) /\ last'.timer.stale) => ~Mutates(n)]_vars

\* C5: once BLOCK has been applied to a nozzle while it was Authorized, the
\* periodic tick started for that fueling episode makes no further progress:
\* it never again raises the nozzle's volume and never takes the nozzle to
\* Completed.
C5_BlockedEpisodeStops ==
  [][\A n \in Nozzles :
       (TimerStep("tick", n) /\ last'.timer.episode = "blocked") =>
          /\ fueling'[n] = fueling[n]
          /\ ~(status[n] # "C" /\ status'[n] = "C")]_vars

\* C6: in every reachable state no nozzle is Authorized ('A') with fueling
\* null, and no GET /api/status response shows that pair.
C6_AuthorizedHasFueling ==
  /\ \A n \in Nozzles : ~(status[n] = "A" /\ fueling[n] = Null)
  /\ last.op = "status" =>
       \A n \in Nozzles :
         ~(last.res.body[n].status = "A" /\ last.res.body[n].currentFueling = Null)

\* C6 witness: a snapshot shows a nozzle Authorized with its record while a
\* completion timer of an earlier episode of that nozzle is still pending.
C6_Witness ==
  /\ last.op = "status"
  /\ \E n \in Nozzles :
       /\ last.res.body[n].status = "A"
       /\ last.res.body[n].currentFueling # Null
       /\ timers[n].completion # <<>>

\* C7: AUTHORIZE applied to a nozzle whose status is neither Waiting ('E')
\* nor Blocked ('B') leaves its status and fueling unchanged, arms no timer
\* and is answered with success.
C7_AuthorizeOnlyFromWaitingOrBlocked ==
  [][\A n \in Nozzles :
       (/\ CommandStep
        /\ last'.req.command = "AUTHORIZE"
        /\ last'.req.nozzleId = IdOf(n)
        /\ status[n] \notin {"E", "B"}) =>
          /\ ~Mutates(n)
          /\ timers' = timers
          /\ last'.res.code = 200
          /\ last'.res.body.success
          /\ last'.res.body.nozzle = NozzleJson(n, status, fueling)]_vars

\* C7 witness: AUTHORIZE was applied to a nozzle that is fueling and was
\* answered with success and the unchanged record.
C7_Witness ==
  /\ last.op = "command"
  /\ last.req.command = "AUTHORIZE"
  /\ last.res.code = 200
  /\ last.res.body.nozzle.status = "A"
  /\ last.res.body.nozzle.currentFueling # Null
  /\ last.res.body.nozzle.currentFueling.volume > 0

\* C8: immediately after BLOCK is applied to an existing nozzle its status is
\* Blocked ('B'), and immediately after FREE it is Free ('L'), whatever the
\* status before and whatever timers are pending.
C8_BlockAndFreeUnconditional ==
  [][\A n \in Nozzles :
       (CommandStep /\ last'.req.nozzleId = IdOf(n)) =>
          /\ last'.req.command = "BLOCK" =>
               status'[n] = "B" /\ last'.res.body.nozzle.status = "B"
          /\ last'.req.command = "FREE" =>
               status'[n] = "L" /\ last'.res.body.nozzle.status = "L"]_vars

\* C8 witness: BLOCK was applied to a nozzle with a periodic tick pending and
\* the nozzle is Blocked.
C8_Witness ==
  /\ last.op = "command"
  /\ last.req.command = "BLOCK"
  /\ last.n # 0
  /\ status[last.n] = "B"
  /\ timers[last.n].interval # <<>>

\* C9: immediately after FREE is applied to a nozzle, in any status, that
\* nozzle's fueling is null.
C9_FreeClearsFueling ==
  [][\A n \in Nozzles :
       (/\ CommandStep
        /\ last'.req.command = "FREE"
        /\ last'.req.nozzleId = IdOf(n)) => fueling'[n] = Null]_vars

\* C10: a command whose nozzleId matches no nozzle is answered 404, changes
\* no nozzle's status or fueling and arms no timer, whatever the command.
C10_UnknownNozzleNotFound ==
  [][(CommandStep /\ \A n \in Nozzles : IdOf(n) # last'.req.nozzleId) =>
        /\ last'.res.code = 404
        /\ UNCHANGED <<status, fueling, timers>>]_vars

\* C10 witness: a command for an unknown id was answered 404 while a nozzle
\* was fueling with its tick pending.
C10_Witness ==
  /\ last.op = "command"
  /\ \A n \in Nozzles : IdOf(n) # last.req.nozzleId
  /\ last.res.code = 404
  /\ \E n \in Nozzles : status[n] = "A" /\ timers[n].interval # <<>>

\* C11: a command for an existing nozzle whose command value is none of
\* AUTHORIZE, BLOCK, FREE is answered with success and that nozzle's record,
\* changes no nozzle's status or fueling and arms no timer.
C11_UnknownCommandNoOp ==
  [][\A n \in Nozzles :
       (/\ CommandStep
        /\ last'.req.nozzleId = IdOf(n)
        /\ last'.req.command \notin {"AUTHORIZE", "BLOCK", "FREE"}) =>
          /\ UNCHANGED <<status, fueling, timers>>
          /\ last'.res.code = 200
          /\ last'.res.body.success
          /\ last'.res.body.nozzle = NozzleJson(n, status, fueling)]_vars

\* C11 witness: an unrecognised command was sent to a nozzle that is fueling
\* and was answered with success and the record of the fueling in progress.
C11_Witness ==
  /\ last.op = "command"
  /\ last.req.command = "RESET"
  /\ last.n # 0
  /\ last.res.code = 200
  /\ last.res.body.nozzle.status = "A"
  /\ last.res.body.nozzle.currentFueling = fueling[last.n]
  /\ fueling[last.n].volume > 0
  /\ timers[last.n].interval # <<>>

\* a command addressed to nozzle n is handled in this step
CommandTo(n) == CommandStep /\ last'.req.nozzleId = IdOf(n)

\* C12: a nozzle that is Ready stays Ready while no command is sent to it,
\* until a promotion makes it Authorized with the record
\* { volume 0, total 0, price 5.89 }: no other step takes it out of Ready.
C12_ReadyBecomesAuthorized ==
  [][\A n \in Nozzles :
       (status[n] = "P" /\ ~CommandTo(n)) =>
          \/ status'[n] = "P" /\ fueling'[n] = fueling[n]
          \/ /\ TimerStep("promote", n)
             /\ status'[n] = "A"
             /\ fueling'[n] = [volume |-> 0, total |-> 0, price |-> 589]]_vars

\* C13: a nozzle that is Authorized leaves that status, while no command is
\* sent to it, only by the tick that brings its volume to the target and
\* makes it Completed; Completed, it leaves only by the completion armed by
\* that tick, to Free with no fueling record.
C13_AuthorizedPassesThroughCompleted ==
  [][\A n \in Nozzles :
       /\ (status[n] = "A" /\ ~CommandTo(n)) =>
            \/ status'[n] = "A"
            \/ /\ TimerStep("tick", n)
               /\ status'[n] = "C"
               /\ fueling'[n].volume >= 40
       /\ (status[n] = "C" /\ ~CommandTo(n)) =>
            \/ status'[n] = "C" /\ fueling'[n] = fueling[n]
            \/ /\ TimerStep("complete", n)
               /\ status'[n] = "L"
               /\ fueling'[n] = Null]_vars

\* volume (in half litres) times the price per litre, in cents, rounded half
\* up to the cent in exact arithmetic
ExactTotal(halves, price) == (halves * price + 1) \div 2

\* C14: whenever a fueling record exists its total is its volume times its
\* price rounded to two decimal places in exact fixed-point arithmetic:
\* 0.5 litre at 5.89 is 2.95.
C14_TotalIsExactRounding ==
  \A n \in Nozzles :
    fueling[n] # Null => fueling[n].total = ExactTotal(fueling[n].volume, fueling[n].price)

\* the fueling record of nozzle n is created, replaced or cleared in this step
EpisodeBoundary(n) ==
  \/ fueling[n] = Null
  \/ fueling'[n] = Null
  \/ TimerStep("promote", n) /\ status[n] = "P"

\* C15: within one fueling episode, from the creation of the record on
\* promotion until it is replaced or cleared, the volume never decreases
\* from one state to the next and the price never changes.
C15_VolumeMonotonePriceConstant ==
  [][\A n \in Nozzles :
       ~EpisodeBoundary(n) =>
          /\ fueling'[n].volume >= fueling[n].volume
          /\ fueling'[n].price = fueling[n].price]_vars

\* C15 witness: a tick of an interval that outlived a BLOCK has just raised
\* the volume of a record that a later interval is also raising.
C15_Witness ==
  /\ last.op = "tick"
  /\ last.timer.stale
  /\ status[last.n] = "A"
  /\ fueling[last.n].volume >= 3
  /\ Len(timers[last.n].interval) >= 2

\* C16: the command handler answers at once: an AUTHORIZE on a Blocked
\* nozzle leaves it Ready with its fueling untouched and the record returned
\* shows Ready, not Authorized; a nozzle becomes Authorized, and gets its new
\* fueling record, only in a later promotion timer step.
C16_AuthorizeAnswersReady ==
  [][\A n \in Nozzles :
       /\ (/\ CommandTo(n)
           /\ last'.req.command = "AUTHORIZE"
           /\ status[n] = "B") =>
             /\ status'[n] = "P"
             /\ fueling'[n] = fueling[n]
             /\ last'.res.code = 200
             /\ last'.res.body.nozzle.status = "P"
             /\ last'.res.body.nozzle.currentFueling = fueling[n]
             /\ timers'[n].promotion # <<>>
             /\ timers'[n].promotion[Len(timers'[n].promotion)].rem > 0
       /\ (status'[n] = "A" /\ status[n] # "A") => TimerStep("promote", n)
       /\ (fueling'[n] = NewFueling /\ fueling[n] # NewFueling) =>
             TimerStep("promote", n)]_vars

\* C16 witness: an AUTHORIZE on a nozzle blocked while fueling was answered
\* with status Ready and the record of the interrupted fueling.
C16_Witness ==
  /\ last.op = "command"
  /\ last.req.command = "AUTHORIZE"
  /\ last.n # 0
  /\ last.res.body.nozzle.status = "P"
  /\ last.res.body.nozzle.currentFueling # Null
  /\ last.res.body.nozzle.currentFueling.volume > 0
  /\ status[last.n] = "P"

\* C17: nozzles are independent: a command addressed to one nozzle and any
\* timer step of one nozzle leave the status and the fueling of every other
\* nozzle as they were.
C17_NozzlesIndependent ==
  [][\A i \in Nozzles :
       (CommandTo(i) \/ \E op \in TimerOps : TimerStep(op, i)) =>
          \A j \in Nozzles \ {i} :
             status'[j] = status[j] /\ fueling'[j] = fueling[j]]_vars

\* C17 witness: a tick has just raised one nozzle's volume while another
\* nozzle is fueling too, at a different volume.
C17_Witness ==
  /\ last.op = "tick"
  /\ \E j \in Nozzles \ {last.n} :
        /\ status[j] = "A"
        /\ status[last.n] = "A"
        /\ fueling[j].volume > 0
        /\ fueling[j].volume # fueling[last.n].volume

\* the ids of the reference installation, in array order
ReferenceIds ==
  <<"01", "02", "03", "04", "05", "06", "07", "08", "09", "10", "11",
     "12", "13", "14", "15", "16", "17", "18", "19", "20", "21", "22",
     "23", "24", "25", "26", "27", "28", "29", "30", "31", "32", "33",
     "34", "35", "36", "37", "38", "39", "40", "41", "42", "43", "44",
     "45", "46", "47", "48">>

\* C18: the collection is fixed: every snapshot lists all configured nozzles
\* in array order under the ids "01", "02", ... given at start, each with
\* its current status and fueling; at start every nozzle is Free with no
\* fueling; the status and fueling collections keep one entry per nozzle.
C18_CollectionFixed ==
  /\ DOMAIN status = 1..NumNozzles
  /\ DOMAIN fueling = 1..NumNozzles
  /\ last.op = "start" =>
       \A n \in Nozzles : status[n] = "L" /\ fueling[n] = Null
  /\ last.op = "status" =>
       /\ DOMAIN last.res.body = 1..NumNozzles
       /\ \A n \in Nozzles :
            /\ last.res.body[n].id = ReferenceIds[n]
            /\ last.res.body[n].status = status[n]
            /\ last.res.body[n].currentFueling = fueling[n]
  /\ (last.op = "command" /\ last.n # 0) =>
       last.res.body.nozzle.id = ReferenceIds[last.n]

\* C18 witness: a snapshot taken after commands and timers have acted on
\* two nozzles lists them in order, one fueling and one blocked.
C18_Witness ==
  /\ last.op = "status"
  /\ Len(last.res.body) = NumNozzles
  /\ last.res.body[1].id = "01"
  /\ last.res.body[1].status = "A"
  /\ last.res.body[1].currentFueling.volume > 0
  /\ last.res.body[2].id = "02"
  /\ last.res.body[2].status = "B"

\* C19: Authorized turns into Completed exactly on the tick at which the
\* volume reaches the target: an Authorized nozzle has a volume below 20
\* litres, a Completed one a volume of at least 20, and after the tick that
\* sets Completed nothing raises the volume further, so it is 20.
C19_CompletedAtTarget ==
  \A n \in Nozzles :
    /\ status[n] = "A" => fueling[n] # Null /\ fueling[n].volume < 40
    /\ status[n] = "C" =>
         /\ fueling[n] # Null
         /\ fueling[n].volume >= 40
         /\ fueling[n].volume <= 40

\* C19 witness: a nozzle is Completed at 20 litres while an interval of an
\* earlier authorization is still armed on it.
C19_Witness ==
  \E n \in Nozzles :
    /\ status[n] = "C"
    /\ fueling[n].volume = 40
    /\ timers[n].interval # <<>>
    /\ timers[n].completion # <<>>

\* C20: no nozzle is ever Waiting ('E'), Failed ('F') or Busy (' '): the
\* statuses reached are Free, Blocked, Ready, Authorized and Completed.  An
\* AUTHORIZE therefore takes effect only on a Blocked nozzle, and a nozzle
\* becomes Blocked only by a BLOCK addressed to it.
C20_WaitingFailedBusyUnreachable ==
  [][\A n \in Nozzles :
       /\ status[n] \in {"L", "B", "P", "A", "C"}
       /\ status'[n] \in {"L", "B", "P", "A", "C"}
       /\ (/\ CommandTo(n)
           /\ last'.req.command = "AUTHORIZE"
           /\ status[n] # "B") =>
             UNCHANGED <<status, fueling, timers>>
       /\ (status'[n] = "B" /\ status[n] # "B") =>
             CommandTo(n) /\ last'.req.command = "BLOCK"]_vars

\* C20 witness: an AUTHORIZE sent to a Free nozzle was answered with the
\* nozzle still Free, nothing armed.
C20_Witness ==
  /\ last.op = "command"
  /\ last.req.command = "AUTHORIZE"
  /\ last.n # 0
  /\ last.res.body.nozzle.status = "L"
  /\ status[last.n] = "L"
  /\ timers[last.n].promotion = <<>>

\* C21: whenever a fueling record exists its volume is a whole number of
\* quanta of 0.5 litre between 0 and the target 20 litres, also when BLOCK
\* and AUTHORIZE restart fueling while earlier timers are pending.
C21_VolumeWithinTarget ==
  \A n \in Nozzles :
    fueling[n] # Null =>
      /\ fueling[n].volume \in Nat
      /\ fueling[n].volume <= 40

\* C21 witness: the tick of an interval that outlived a BLOCK has brought
\* the record of a restarted fueling to 20 litres while a later interval is
\* still armed.
C21_Witness ==
  /\ last.op = "tick"
  /\ last.timer.stale
  /\ fueling[last.n].volume = 40
  /\ status[last.n] = "C"
  /\ timers[last.n].interval # <<>>
  /\ ~Head(timers[last.n].interval).stale

\* no timer pending and every nozzle Free or Blocked
Quiescent ==
  \A n \in Nozzles : timers[n] = NoTimers /\ status[n] \in {"L", "B"}

\* C22: with finitely many commands and timers that fire, the system comes
\* to rest: from some point on no promotion, tick or completion is pending
\* for any nozzle and every nozzle is Free or Blocked.
C22_Quiescence == <>[]Quiescent

\* C22 witness: the commands are used up and the system is at rest after
\* the last interval of a nozzle blocked while fueling has cleared itself.
C22_Witness ==
  /\ Quiescent
  /\ client.left = 0
  /\ last.op = "tick"
  /\ status[last.n] = "B"
  /\ fueling[last.n] # Null
  /\ fueling[last.n].volume > 0

\* C23: while the App is disconnected its nozzle list and its selected
\* nozzle are empty, whatever response arrives, and it sends no status or
\* command request.
C23_DisconnectedStaysEmpty ==
  [][~ui'.isConnected =>
       /\ ui'.nozzles = <<>>
       /\ ui'.selectedNozzle = Null
       /\ \A r \in ui'.requests \ ui.requests : r.phase # "sent"]_vars

====
